---- MODULE Spec2Model ----
(***************************************************************************)
(* Model of the SAT backend's adaptive scoring utility                     *)
(* (src/utils/satScoring.js) and of the submission workflow that calls it  *)
(* (src/models/Submission.js).                                             *)
(*                                                                         *)
(* JavaScript numbers are IEEE 754 binary64.  The percentages the scoring  *)
(* code computes are modelled bit for bit: a non-negative double is the    *)
(* record [n |-> integer part, f |-> fraction bits, most significant       *)
(* first, no trailing zero], and division and multiplication round to 53   *)
(* significant bits, ties to even, as the hardware does.                   *)
(***************************************************************************)
EXTENDS Integers, Sequences, FiniteSets, TLC

\* The last call: the function, its arguments, whether it has returned, and
\* what it returned or threw.
VARIABLES op, args, called, ret
\* The rows of one submission in the tables submissions, submission_modules
\* and submitted_answers, and the number of answer batches committed so far.
VARIABLES submission, submission_modules, submitted_answers, batches

\* The completeModule calls that run as interleaved transactions: for each
\* client its position, what it has read and what it has written but not
\* yet committed.
VARIABLES transactions

vars == <<op, args, called, ret, submission, submission_modules, submitted_answers, batches, transactions>>

dbvars == <<submission, submission_modules, submitted_answers, batches, transactions>>

(***************************************************************************)
(* Bounds of the model.                                                    *)
(***************************************************************************)
\* Largest stage (module) size drawn in full: every total 0..MaxStageItems.
MaxStageItems == 27
\* Raw scores handed to calculateSectionScore run from -RawMargin to the
\* largest table key plus RawMargin.
RawMargin == 3
\* Stage sizes beyond a real SAT module, which the functions accept as well.
LargeStage == 160
HugeStage == 2003
\* Percentages handed to determineModule2Difficulty run from 0 to
\* MaxPercentage in steps of 0.01.
MaxPercentage == 100
\* Scaled scores handed to calculateTotalSATScore run from 0 to
\* MaxScaledTens * 10 in steps of 10.
MaxScaledTens == 90
\* Questions linked to each module of the test.
QuestionsPerModule == 3
\* Answer batches a submission commits.
MaxBatches == 2

(***************************************************************************)
(* IEEE 754 binary64 arithmetic on non-negative values.                    *)
(***************************************************************************)
\* Significant bits of a binary64 mantissa.
Precision == 53

\* Bits of the integer n, 0 <= n < 2^30.
BitLen(n) == CHOOSE k \in 0..30 : n < 2 ^ k /\ (k = 0 \/ n >= 2 ^ (k - 1))

\* Zero bits before the first one bit of f.
LeadingZeros(f) ==
  IF \E i \in 1..Len(f) : f[i] = 1
  THEN (CHOOSE i \in 1..Len(f) :
          f[i] = 1 /\ \A j \in 1..(i - 1) : f[j] = 0) - 1
  ELSE Len(f)

\* f without its trailing zero bits.
Trim(f) ==
  IF \E i \in 1..Len(f) : f[i] = 1
  THEN SubSeq(f, 1, CHOOSE i \in 1..Len(f) :
                      f[i] = 1 /\ \A j \in (i + 1)..Len(f) : f[j] = 0)
  ELSE <<>>

\* f plus one unit in its last place; c is the carry into the integer part.
Incr(f) ==
  IF \E i \in 1..Len(f) : f[i] = 0
  THEN LET k == CHOOSE i \in 1..Len(f) :
                  f[i] = 0 /\ \A j \in (i + 1)..Len(f) : f[j] = 1
       IN [f |-> [i \in 1..Len(f) |->
                    IF i < k THEN f[i] ELSE IF i = k THEN 1 ELSE 0],
           c |-> 0]
  ELSE [f |-> [i \in 1..Len(f) |-> 0], c |-> 1]

\* Fraction bits a double with integer part n and exact fraction f can keep.
Keep(n, f) ==
  IF n > 0 THEN Precision - BitLen(n) ELSE LeadingZeros(f) + Precision

\* The exact value n + 0.f (+ something below the last bit when sticky),
\* rounded to the nearest double, ties to even.
RoundNearestEven(n, f, sticky) ==
  LET L == Keep(n, f)
  IN IF Len(f) <= L THEN [n |-> n, f |-> Trim(f)]
     ELSE LET kept == SubSeq(f, 1, L)
              guard == f[L + 1]
              rest == sticky \/ \E i \in (L + 2)..Len(f) : f[i] = 1
              odd == IF L = 0 THEN n % 2 = 1 ELSE f[L] = 1
              inc == Incr(kept)
          IN IF guard = 1 /\ (rest \/ odd)
             THEN [n |-> n + inc.c, f |-> Trim(inc.f)]
             ELSE [n |-> n, f |-> Trim(kept)]

\* 2^i modulo t.
RECURSIVE Pow2Mod(_, _)
Pow2Mod(i, t) ==
  IF i <= 16 THEN (2 ^ i) % t
  ELSE (Pow2Mod(16, t) * Pow2Mod(i - 16, t)) % t

\* Long division r / t (r < t): the remainder after i fraction bits, and
\* fraction bit i.
DivRem(r, t, i) == (r * Pow2Mod(i, t)) % t

DivBit(r, t, i) == IF 2 * DivRem(r, t, i - 1) >= t THEN 1 ELSE 0

\* The double a / b of two integers a >= 0, b > 0 (JavaScript's a / b): the
\* quotient's bits up to the guard bit after Precision significant bits,
\* rounded.
Divide(a, b) ==
  LET q == a \div b
      r == a % b
      zeros == IF q > 0 \/ r = 0 THEN 0
               ELSE CHOOSE z \in 0..BitLen(b) :
                      r * 2 ^ (z + 1) >= b /\ r * 2 ^ z < b
      count == IF r = 0 THEN 0 ELSE zeros + Precision + 1 - BitLen(q)
      f == [i \in 1..count |-> DivBit(r, b, i)]
  IN RoundNearestEven(q, f, DivRem(r, b, count) # 0)

\* Bit i of f, zero beyond its end, and the value of its k-th group of
\* eight bits.
BitAt(f, i) == IF i <= Len(f) THEN f[i] ELSE 0

Byte(f, k) ==
  BitAt(f, 8 * k - 7) * 128 + BitAt(f, 8 * k - 6) * 64
  + BitAt(f, 8 * k - 5) * 32 + BitAt(f, 8 * k - 4) * 16
  + BitAt(f, 8 * k - 3) * 8 + BitAt(f, 8 * k - 2) * 4
  + BitAt(f, 8 * k - 1) * 2 + BitAt(f, 8 * k)

Bytes(f) == (Len(f) + 7) \div 8

\* The product 0.f * m group by group, from the last group up to the first:
\* the product's groups and the carry into the integer part.
RECURSIVE MulBytesAt(_, _, _, _, _)
MulBytesAt(f, m, k, c, acc) ==
  IF k = 0 THEN [bytes |-> acc, c |-> c]
  ELSE MulBytesAt(f, m, k - 1, (Byte(f, k) * m + c) \div 256,
                  <<(Byte(f, k) * m + c) % 256>> \o acc)

\* Exact product of the fraction 0.f by the integer m: the product's
\* fraction bits and the carry into the integer part.
MulFrac(f, m) ==
  LET product == MulBytesAt(f, m, Bytes(f), 0, <<>>)
  IN [f |-> [i \in 1..(8 * Bytes(f)) |->
               LET k == (i + 7) \div 8
               IN (product.bytes[k] \div 2 ^ (8 * k - i)) % 2],
      c |-> product.c]

\* The double x * m of a double x and a small integer m (JavaScript's x * m).
Times(x, m) ==
  LET p == MulFrac(x.f, m)
  IN RoundNearestEven(x.n * m + p.c, p.f, FALSE)

\* JavaScript's Math.round on a non-negative double: nearest integer, a
\* fraction of exactly one half goes up.
MathRound(x) == x.n + (IF x.f # <<>> /\ x.f[1] = 1 THEN 1 ELSE 0)

\* JavaScript's x >= k for a non-negative double x and an integer k >= 0.
GreaterOrEqual(x, k) == x.n >= k

FromInt(k) == [n |-> k, f |-> <<>>]

(***************************************************************************)
(* The conversion tables, listed by ascending raw score (key 0 first).     *)
(***************************************************************************)
RW_hard ==
  <<200, 240, 260, 270, 280, 290, 300, 310, 320, 330, 340, 350, 360, 370,
    380, 390, 400, 410, 420, 430, 440, 450, 460, 470, 480, 490, 500, 510,
    520, 530, 540, 550, 560, 570, 580, 590, 600, 610, 620, 630, 640, 650,
    660, 670, 680, 690, 700, 710, 730, 740, 750, 760, 770, 790, 800>>

\* Mutant: the entries of raw scores 5 and 6 are transposed.
RW_easy_Transposed ==
  <<200, 200, 200, 200, 200, 220, 210, 230, 240, 250, 260, 270, 280, 290,
    300, 310, 320, 330, 340, 350, 360, 370, 380, 390, 400, 410, 420, 430,
    440, 450, 460, 470, 480, 490, 500, 510, 520, 530, 540, 550, 560, 570,
    580, 590, 600, 610, 620, 630, 640, 650, 660, 670, 680, 690, 700>>

RW_easy ==
  <<200, 200, 200, 200, 200, 210, 220, 230, 240, 250, 260, 270, 280, 290,
    300, 310, 320, 330, 340, 350, 360, 370, 380, 390, 400, 410, 420, 430,
    440, 450, 460, 470, 480, 490, 500, 510, 520, 530, 540, 550, 560, 570,
    580, 590, 600, 610, 620, 630, 640, 650, 660, 670, 680, 690, 700>>

\* Mutant: raw score 1 converts to 240, the entry of the easy table.
MATH_hard_LowStart ==
  <<200, 240, 280, 310, 330, 350, 370, 390, 400, 410, 420, 430, 440, 450,
    460, 470, 480, 490, 500, 510, 520, 530, 540, 550, 560, 570, 580, 590,
    600, 610, 620, 630, 640, 650, 660, 670, 680, 690, 700, 710, 720, 740,
    760, 780, 800>>

MATH_hard ==
  <<200, 250, 280, 310, 330, 350, 370, 390, 400, 410, 420, 430, 440, 450,
    460, 470, 480, 490, 500, 510, 520, 530, 540, 550, 560, 570, 580, 590,
    600, 610, 620, 630, 640, 650, 660, 670, 680, 690, 700, 710, 720, 740,
    760, 780, 800>>

MATH_easy ==
  <<200, 240, 260, 270, 280, 290, 300, 310, 320, 330, 340, 350, 360, 370,
    380, 390, 400, 410, 420, 430, 440, 450, 460, 470, 480, 490, 500, 510,
    520, 530, 540, 550, 560, 570, 580, 590, 600, 610, 620, 630, 640, 650,
    660, 670, 680>>

\* An object literal keyed by raw score: key r holds rows[r + 1].
Keyed(rows) == [r \in 0..(Len(rows) - 1) |-> rows[r + 1]]

RW_SCORE_TABLE == [hard |-> Keyed(RW_hard), easy |-> Keyed(RW_easy)]

MATH_SCORE_TABLE == [hard |-> Keyed(MATH_hard), easy |-> Keyed(MATH_easy)]

(***************************************************************************)
(* The scoring functions.  A call either returns a value or throws.        *)
(***************************************************************************)
\* JavaScript's and SQL's null.
Null == [null |-> TRUE]

Return(v) == [threw |-> FALSE, value |-> v]

Throw(e) == [threw |-> TRUE, error |-> e]

\* Mutant: the threshold itself no longer counts as reaching it (> for >=).
determineModule2Difficulty_Above(module1Percentage) ==
  IF \/ module1Percentage.n > 70
     \/ (module1Percentage.n = 70 /\ module1Percentage.f # <<>>)
  THEN "hard" ELSE "easy"

determineModule2Difficulty(module1Percentage) ==
  IF GreaterOrEqual(module1Percentage, 70) THEN "hard" ELSE "easy"

\* Mutant: both subjects read the Reading and Writing table.
calculateSectionScore_OneTable(rawScore, subject, module2Difficulty) ==
  IF subject \notin {"Reading and Writing", "Math"}
  THEN Throw("Invalid subject")
  ELSE IF module2Difficulty \notin DOMAIN RW_SCORE_TABLE
  THEN Throw("TypeError")
  ELSE LET scoreTable == RW_SCORE_TABLE[module2Difficulty]
       IN Return(IF rawScore \in DOMAIN scoreTable
                    /\ scoreTable[rawScore] # 0
                 THEN scoreTable[rawScore]
                 ELSE 200)

\* Mutant: a raw score above the table's last key is clamped to that key.
calculateSectionScore_ClampHigh(rawScore, subject, module2Difficulty) ==
  IF subject \notin {"Reading and Writing", "Math"}
  THEN Throw("Invalid subject")
  ELSE LET table == IF subject = "Reading and Writing"
                    THEN RW_SCORE_TABLE ELSE MATH_SCORE_TABLE
       IN IF module2Difficulty \notin DOMAIN table
          THEN Throw("TypeError")
          ELSE LET scoreTable == table[module2Difficulty]
                   last == Cardinality(DOMAIN scoreTable) - 1
               IN Return(IF rawScore > last THEN scoreTable[last]
                         ELSE IF rawScore \in DOMAIN scoreTable
                                 /\ scoreTable[rawScore] # 0
                         THEN scoreTable[rawScore]
                         ELSE 200)

\* Mutant: an unrecognised subject falls through to the Math table.
calculateSectionScore_NoSubjectCheck(rawScore, subject, module2Difficulty) ==
  LET table == IF subject = "Reading and Writing"
               THEN RW_SCORE_TABLE ELSE MATH_SCORE_TABLE
  IN IF module2Difficulty \notin DOMAIN table
     THEN Throw("TypeError")
     ELSE LET scoreTable == table[module2Difficulty]
          IN Return(IF rawScore \in DOMAIN scoreTable
                       /\ scoreTable[rawScore] # 0
                    THEN scoreTable[rawScore]
                    ELSE 200)

\* Mutant: a raw score the table lacks is extrapolated from the nearest end
\* of the table, ten points a question.
calculateSectionScore_Extrapolates(rawScore, subject, module2Difficulty) ==
  IF subject \notin {"Reading and Writing", "Math"}
  THEN Throw("Invalid subject")
  ELSE LET table == IF subject = "Reading and Writing"
                    THEN RW_SCORE_TABLE ELSE MATH_SCORE_TABLE
       IN IF module2Difficulty \notin DOMAIN table
          THEN Throw("TypeError")
          ELSE LET scoreTable == table[module2Difficulty]
               IN Return(IF rawScore \in DOMAIN scoreTable
                            /\ scoreTable[rawScore] # 0
                         THEN scoreTable[rawScore]
                         ELSE 200 + 10 * rawScore)

\* Mutant: a raw score the table lacks converts to 0, not to the floor 200.
calculateSectionScore_NoFloor(rawScore, subject, module2Difficulty) ==
  IF subject \notin {"Reading and Writing", "Math"}
  THEN Throw("Invalid subject")
  ELSE LET table == IF subject = "Reading and Writing"
                    THEN RW_SCORE_TABLE ELSE MATH_SCORE_TABLE
       IN IF module2Difficulty \notin DOMAIN table
          THEN Throw("TypeError")
          ELSE LET scoreTable == table[module2Difficulty]
               IN Return(IF rawScore \in DOMAIN scoreTable
                         THEN scoreTable[rawScore]
                         ELSE 0)

\* Mutant: the table is read one key too high.
calculateSectionScore_KeyOffByOne(rawScore, subject, module2Difficulty) ==
  IF subject \notin {"Reading and Writing", "Math"}
  THEN Throw("Invalid subject")
  ELSE LET table == IF subject = "Reading and Writing"
                    THEN RW_SCORE_TABLE ELSE MATH_SCORE_TABLE
       IN IF module2Difficulty \notin DOMAIN table
          THEN Throw("TypeError")
          ELSE LET scoreTable == table[module2Difficulty]
               IN Return(IF (rawScore + 1) \in DOMAIN scoreTable
                            /\ scoreTable[rawScore + 1] # 0
                         THEN scoreTable[rawScore + 1]
                         ELSE 200)

\* Mutant: each difficulty reads the table of the other.
calculateSectionScore_TablesSwapped(rawScore, subject, module2Difficulty) ==
  IF subject \notin {"Reading and Writing", "Math"}
  THEN Throw("Invalid subject")
  ELSE LET table == IF subject = "Reading and Writing"
                    THEN RW_SCORE_TABLE ELSE MATH_SCORE_TABLE
       IN IF module2Difficulty \notin DOMAIN table
          THEN Throw("TypeError")
          ELSE LET scoreTable == IF module2Difficulty = "hard"
                                 THEN table.easy ELSE table.hard
               IN Return(IF rawScore \in DOMAIN scoreTable
                            /\ scoreTable[rawScore] # 0
                         THEN scoreTable[rawScore]
                         ELSE 200)

calculateSectionScore(rawScore, subject, module2Difficulty) ==
  IF subject \notin {"Reading and Writing", "Math"}
  THEN Throw("Invalid subject")
  ELSE LET table == IF subject = "Reading and Writing"
                    THEN RW_SCORE_TABLE ELSE MATH_SCORE_TABLE
       IN IF module2Difficulty \notin DOMAIN table
          THEN Throw("TypeError")
          ELSE LET scoreTable == table[module2Difficulty]
               IN Return(IF rawScore \in DOMAIN scoreTable
                            /\ scoreTable[rawScore] # 0
                         THEN scoreTable[rawScore]
                         ELSE 200)

\* Mutant: when a prior percentage is handed over, it decides the stored
\* next difficulty.
calculateModuleScore_BranchOfPrior(correctAnswers, totalQuestions, subject, moduleNumber, module1Percentage) ==
  LET percentage == IF totalQuestions > 0
                    THEN Times(Divide(correctAnswers, totalQuestions), 100)
                    ELSE FromInt(0)
      scoreData == [raw_score |-> correctAnswers,
                    total_questions |-> totalQuestions,
                    percentage |-> Divide(MathRound(Times(percentage, 100)), 100),
                    module_number |-> moduleNumber]
  IN IF moduleNumber = 1 \/ module1Percentage # Null
     THEN [raw_score |-> scoreData.raw_score,
           total_questions |-> scoreData.total_questions,
           percentage |-> scoreData.percentage,
           module_number |-> scoreData.module_number,
           determines_next_difficulty |->
             determineModule2Difficulty(IF module1Percentage # Null
                                        THEN module1Percentage
                                        ELSE percentage)]
     ELSE scoreData

calculateModuleScore(correctAnswers, totalQuestions, subject, moduleNumber, module1Percentage) ==
  LET percentage == IF totalQuestions > 0
                    THEN Times(Divide(correctAnswers, totalQuestions), 100)
                    ELSE FromInt(0)
      scoreData == [raw_score |-> correctAnswers,
                    total_questions |-> totalQuestions,
                    percentage |-> Divide(MathRound(Times(percentage, 100)), 100),
                    module_number |-> moduleNumber]
  IN IF moduleNumber = 1
     THEN [raw_score |-> scoreData.raw_score,
           total_questions |-> scoreData.total_questions,
           percentage |-> scoreData.percentage,
           module_number |-> scoreData.module_number,
           determines_next_difficulty |->
             determineModule2Difficulty(percentage)]
     ELSE scoreData

\* Mutant: the table is chosen from the percentage of both modules together.
calculateSectionFinalScore_BranchOfOverall(module1Score, module2Score, subject) ==
  LET totalRawScore == module1Score.raw_score + module2Score.raw_score
      totalQuestions ==
        module1Score.total_questions + module2Score.total_questions
      overallPercentage ==
        IF totalQuestions > 0
        THEN Times(Divide(totalRawScore, totalQuestions), 100)
        ELSE FromInt(0)
      module2Difficulty == determineModule2Difficulty(overallPercentage)
      scaledScore ==
        calculateSectionScore(totalRawScore, subject, module2Difficulty)
  IN IF scaledScore.threw THEN scaledScore
     ELSE Return([subject |-> subject,
                  raw_score |-> totalRawScore,
                  total_questions |-> totalQuestions,
                  percentage |->
                    Divide(MathRound(Times(overallPercentage, 100)), 100),
                  scaled_score |-> scaledScore.value,
                  module_2_difficulty |-> module2Difficulty,
                  module_scores |-> <<module1Score, module2Score>>])

\* Mutant: the table is chosen from the second module's percentage.
calculateSectionFinalScore_BranchOfStage2(module1Score, module2Score, subject) ==
  LET totalRawScore == module1Score.raw_score + module2Score.raw_score
      totalQuestions ==
        module1Score.total_questions + module2Score.total_questions
      overallPercentage ==
        IF totalQuestions > 0
        THEN Times(Divide(totalRawScore, totalQuestions), 100)
        ELSE FromInt(0)
      module2Difficulty == determineModule2Difficulty(module2Score.percentage)
      scaledScore ==
        calculateSectionScore(totalRawScore, subject, module2Difficulty)
  IN IF scaledScore.threw THEN scaledScore
     ELSE Return([subject |-> subject,
                  raw_score |-> totalRawScore,
                  total_questions |-> totalQuestions,
                  percentage |->
                    Divide(MathRound(Times(overallPercentage, 100)), 100),
                  scaled_score |-> scaledScore.value,
                  module_2_difficulty |-> module2Difficulty,
                  module_scores |-> <<module1Score, module2Score>>])

\* Mutant: the table is chosen by the difficulty stored in the first
\* module's score.
calculateSectionFinalScore_TrustStored(module1Score, module2Score, subject) ==
  LET totalRawScore == module1Score.raw_score + module2Score.raw_score
      totalQuestions ==
        module1Score.total_questions + module2Score.total_questions
      overallPercentage ==
        IF totalQuestions > 0
        THEN Times(Divide(totalRawScore, totalQuestions), 100)
        ELSE FromInt(0)
      module2Difficulty == module1Score.determines_next_difficulty
      scaledScore ==
        calculateSectionScore(totalRawScore, subject, module2Difficulty)
  IN IF scaledScore.threw THEN scaledScore
     ELSE Return([subject |-> subject,
                  raw_score |-> totalRawScore,
                  total_questions |-> totalQuestions,
                  percentage |->
                    Divide(MathRound(Times(overallPercentage, 100)), 100),
                  scaled_score |-> scaledScore.value,
                  module_2_difficulty |-> module2Difficulty,
                  module_scores |-> <<module1Score, module2Score>>])

calculateSectionFinalScore(module1Score, module2Score, subject) ==
  LET totalRawScore == module1Score.raw_score + module2Score.raw_score
      totalQuestions ==
        module1Score.total_questions + module2Score.total_questions
      overallPercentage ==
        IF totalQuestions > 0
        THEN Times(Divide(totalRawScore, totalQuestions), 100)
        ELSE FromInt(0)
      module2Difficulty == determineModule2Difficulty(module1Score.percentage)
      scaledScore ==
        calculateSectionScore(totalRawScore, subject, module2Difficulty)
  IN IF scaledScore.threw THEN scaledScore
     ELSE Return([subject |-> subject,
                  raw_score |-> totalRawScore,
                  total_questions |-> totalQuestions,
                  percentage |->
                    Divide(MathRound(Times(overallPercentage, 100)), 100),
                  scaled_score |-> scaledScore.value,
                  module_2_difficulty |-> module2Difficulty,
                  module_scores |-> <<module1Score, module2Score>>])

\* Mutant: the total is clamped to the reported score range.
calculateTotalSATScore_Clamped(readingWritingSection, mathSection) ==
  LET sum == readingWritingSection.scaled_score + mathSection.scaled_score
      totalScore == IF sum < 400 THEN 400 ELSE IF sum > 1600 THEN 1600 ELSE sum
  IN [total_score |-> totalScore,
      reading_writing |-> readingWritingSection,
      math |-> mathSection,
      score_range |-> [min |-> 400, max |-> 1600]]

\* Mutant: the first argument's scaled score is added twice.
calculateTotalSATScore_FirstTwice(readingWritingSection, mathSection) ==
  LET totalScore ==
        readingWritingSection.scaled_score + readingWritingSection.scaled_score
  IN [total_score |-> totalScore,
      reading_writing |-> readingWritingSection,
      math |-> mathSection,
      score_range |-> [min |-> 400, max |-> 1600]]

calculateTotalSATScore(readingWritingSection, mathSection) ==
  LET totalScore ==
        readingWritingSection.scaled_score + mathSection.scaled_score
  IN [total_score |-> totalScore,
      reading_writing |-> readingWritingSection,
      math |-> mathSection,
      score_range |-> [min |-> 400, max |-> 1600]]

(***************************************************************************)
(* The scoring functions called on their own: the initial state holds one  *)
(* call (a function and its arguments, drawn from bounded sets) and the    *)
(* call's action evaluates it.                                             *)
(***************************************************************************)
Subjects == {"Reading and Writing", "Math"}

\* Subject arguments, the two recognised ones and others.
SubjectArgs == Subjects \cup {"Science", ""}

Difficulties == {"hard", "easy"}

\* Difficulty arguments: the two table keys and the baseline difficulty of
\* a Module 1, which keys no table.
DifficultyArgs == Difficulties \cup {"medium"}

StageSizes == (0..MaxStageItems) \cup {LargeStage}

\* Sizes <<stage 1, stage 2>> of the module scores handed to
\* calculateSectionFinalScore: empty and full stages, and a large first
\* stage followed by an empty second one.
StagePairs ==
  ({0, MaxStageItems} \X {0, MaxStageItems}) \cup {<<LargeStage, 0>>}

\* The largest key of the conversion tables.
MaxRawKey == Len(RW_hard) - 1

\* The value of ret before the call has returned.
Pending == [pending |-> TRUE]

InitDetermineModule2Difficulty ==
  \E h \in 0..(MaxPercentage * 100) :
    /\ op = "determineModule2Difficulty"
    /\ args = [module1Percentage |-> Divide(h, 100), hundredths |-> h]

InitCalculateSectionScore ==
  \E r \in (0 - RawMargin)..(MaxRawKey + RawMargin) :
    \E s \in SubjectArgs : \E d \in DifficultyArgs :
      /\ op = "calculateSectionScore"
      /\ args = [rawScore |-> r, subject |-> s, module2Difficulty |-> d]

InitCalculateModuleScore ==
  \E t \in StageSizes : \E c \in 0..t : \E s \in Subjects : \E k \in {1, 2} :
    /\ op = "calculateModuleScore"
    /\ args = [correctAnswers |-> c, totalQuestions |-> t, subject |-> s,
               moduleNumber |-> k, module1Percentage |-> Null]

\* A first module of HugeStage graded answers.
InitCalculateModuleScoreHuge ==
  \E c \in 0..HugeStage : \E k \in {1, 2} :
    /\ op = "calculateModuleScore"
    /\ args = [correctAnswers |-> c, totalQuestions |-> HugeStage,
               subject |-> "Math", moduleNumber |-> k,
               module1Percentage |-> Null]

InitCalculateSectionFinalScore ==
  \E t \in StagePairs : \E c1 \in 0..t[1] : \E c2 \in 0..t[2] :
    \E s \in SubjectArgs \ {""} :
      /\ op = "calculateSectionFinalScore"
      /\ args =
           [module1Score |-> calculateModuleScore(c1, t[1], s, 1, Null),
            module2Score |-> calculateModuleScore(c2, t[2], s, 2, Null),
            subject |-> s]

InitCalculateTotalSATScore ==
  \E a \in 0..MaxScaledTens : \E b \in 0..MaxScaledTens :
    /\ op = "calculateTotalSATScore"
    /\ args = [readingWritingSection |->
                 [subject |-> "Reading and Writing", scaled_score |-> a * 10],
               mathSection |-> [subject |-> "Math", scaled_score |-> b * 10]]

\* Stage results <<raw 1, total 1, raw 2, total 2>> of one subject: stages of
\* MaxStageItems graded answers with a first stage at its extremes and on
\* either side of the branch threshold, and a large first stage whose raw
\* score lies beyond every table.
SectionStages ==
  {<<c1, MaxStageItems, c2, MaxStageItems>> :
     c1 \in {0, (7 * MaxStageItems) \div 10, (7 * MaxStageItems) \div 10 + 1,
             MaxStageItems},
     c2 \in {0, MaxStageItems \div 2, MaxStageItems}}
  \cup {<<LargeStage, LargeStage, 0, 0>>}

\* The section score of a subject from its stage results, as
\* finalizeSubmission builds it.
SectionOf(g, subject) ==
  calculateSectionFinalScore(calculateModuleScore(g[1], g[2], subject, 1, Null),
                             calculateModuleScore(g[3], g[4], subject, 2, Null),
                             subject).value

\* calculateTotalSATScore on two section scores that calculateSectionFinalScore
\* returned.
InitCalculateTotalSATScoreOfSections ==
  \E g \in SectionStages : \E h \in SectionStages :
    /\ op = "calculateTotalSATScore"
    /\ args = [readingWritingSection |-> SectionOf(g, "Reading and Writing"),
               mathSection |-> SectionOf(h, "Math")]

\* The scoring functions touch no table.
NoDatabase ==
  /\ submission = Null
  /\ submission_modules = {}
  /\ submitted_answers = {}
  /\ batches = 0
  /\ transactions = <<>>

ScoringInit ==
  /\ NoDatabase
  /\ \/ InitDetermineModule2Difficulty
     \/ InitCalculateSectionScore
     \/ InitCalculateModuleScore
     \/ InitCalculateModuleScoreHuge
     \/ InitCalculateSectionFinalScore
     \/ InitCalculateTotalSATScore
     \/ InitCalculateTotalSATScoreOfSections
  /\ called = FALSE
  /\ ret = Pending

CallDetermineModule2Difficulty ==
  /\ op = "determineModule2Difficulty"
  /\ ~called
  /\ called' = TRUE
  /\ ret' = Return(determineModule2Difficulty(args.module1Percentage))
  /\ UNCHANGED <<op, args>>
  /\ UNCHANGED dbvars

CallCalculateSectionScore ==
  /\ op = "calculateSectionScore"
  /\ ~called
  /\ called' = TRUE
  /\ ret' = calculateSectionScore(args.rawScore, args.subject,
                                  args.module2Difficulty)
  /\ UNCHANGED <<op, args>>
  /\ UNCHANGED dbvars

CallCalculateModuleScore ==
  /\ op = "calculateModuleScore"
  /\ ~called
  /\ called' = TRUE
  /\ ret' = Return(calculateModuleScore(args.correctAnswers,
                                        args.totalQuestions, args.subject,
                                        args.moduleNumber,
                                        args.module1Percentage))
  /\ UNCHANGED <<op, args>>
  /\ UNCHANGED dbvars

\* Mutant: the combined raw score is accumulated in the first module's
\* score, the caller's record.
CallCalculateSectionFinalScore_Accumulates ==
  /\ op = "calculateSectionFinalScore"
  /\ ~called
  /\ called' = TRUE
  /\ ret' = calculateSectionFinalScore(args.module1Score, args.module2Score,
                                       args.subject)
  /\ args' = [args EXCEPT !.module1Score.raw_score =
                            @ + args.module2Score.raw_score]
  /\ UNCHANGED op
  /\ UNCHANGED dbvars

CallCalculateSectionFinalScore ==
  /\ op = "calculateSectionFinalScore"
  /\ ~called
  /\ called' = TRUE
  /\ ret' = calculateSectionFinalScore(args.module1Score, args.module2Score,
                                       args.subject)
  /\ UNCHANGED <<op, args>>
  /\ UNCHANGED dbvars

CallCalculateTotalSATScore ==
  /\ op = "calculateTotalSATScore"
  /\ ~called
  /\ called' = TRUE
  /\ ret' = Return(calculateTotalSATScore(args.readingWritingSection,
                                          args.mathSection))
  /\ UNCHANGED <<op, args>>
  /\ UNCHANGED dbvars

ScoringNext ==
  \/ CallDetermineModule2Difficulty
  \/ CallCalculateSectionScore
  \/ CallCalculateModuleScore
  \/ CallCalculateSectionFinalScore
  \/ CallCalculateTotalSATScore

ScoringSpec == ScoringInit /\ [][ScoringNext]_vars

(***************************************************************************)
(* The submission workflow of src/models/Submission.js over one            *)
(* submission of one test.  Timestamps, user ids and time_spent_seconds    *)
(* take part in no decision and are left out of the rows.                  *)
(***************************************************************************)

\* The six modules of the test, keyed by module id.
modules ==
  [RW1  |-> [id |-> "RW1", name |-> "Reading and Writing - Module 1",
             subject_name |-> "Reading and Writing", difficulty |-> "medium"],
   RW2E |-> [id |-> "RW2E", name |-> "Reading and Writing - Module 2 (Easier)",
             subject_name |-> "Reading and Writing", difficulty |-> "easy"],
   RW2H |-> [id |-> "RW2H", name |-> "Reading and Writing - Module 2 (Harder)",
             subject_name |-> "Reading and Writing", difficulty |-> "hard"],
   M1   |-> [id |-> "M1", name |-> "Math - Module 1",
             subject_name |-> "Math", difficulty |-> "medium"],
   M2E  |-> [id |-> "M2E", name |-> "Math - Module 2 (Easier)",
             subject_name |-> "Math", difficulty |-> "easy"],
   M2H  |-> [id |-> "M2H", name |-> "Math - Module 2 (Harder)",
             subject_name |-> "Math", difficulty |-> "hard"]]

ModuleIds == DOMAIN modules

\* test_modules.order_number of each module of the test.
test_modules ==
  [RW1 |-> 0, RW2E |-> 1, RW2H |-> 2, M1 |-> 3, M2E |-> 4, M2H |-> 5]

\* The Module 1 of each subject, the module a submission is created with.
Module1Ids == {m \in ModuleIds : modules[m].difficulty = "medium"}

\* Question i of module m has id <<m, i>>; every question offers the
\* choices A and B.
AnswerChoices == {"A", "B"}

\* questions.correct_answer.
correct_answer(questionId) == "A"

\* The rows of submission_modules, ascending by order_in_test.
RECURSIVE OrderByOrderInTest(_)
OrderByOrderInTest(rows) ==
  IF rows = {} THEN <<>>
  ELSE LET first == CHOOSE r \in rows :
                      \A o \in rows : r.order_in_test <= o.order_in_test
       IN <<first>> \o OrderByOrderInTest(rows \ {first})

\* SELECT ... FROM submission_modules WHERE module_id = moduleId.
ModuleRows(db, moduleId) ==
  {sm \in db.submission_modules : sm.module_id = moduleId}

RowsOfSubject(db, subjectName) ==
  {sm \in db.submission_modules :
      modules[sm.module_id].subject_name = subjectName}

\* INSERT ... ON CONFLICT (submission_id, question_id) DO UPDATE SET
\* submitted_answer = EXCLUDED.submitted_answer ... RETURNING *.
\* Mutant: ON CONFLICT DO NOTHING, the answer stored first is kept.
Upsert_KeepFirst(rows, submissionModuleId, answer) ==
  IF \E r \in rows : r.question_id = answer.questionId
  THEN LET old == CHOOSE r \in rows : r.question_id = answer.questionId
       IN [rows |-> rows, row |-> old]
  ELSE LET new == [submission_module_id |-> submissionModuleId,
                   question_id |-> answer.questionId,
                   submitted_answer |-> answer.submittedAnswer,
                   is_correct |-> "null"]
       IN [rows |-> rows \cup {new}, row |-> new]

Upsert(rows, submissionModuleId, answer) ==
  IF \E r \in rows : r.question_id = answer.questionId
  THEN LET old == CHOOSE r \in rows : r.question_id = answer.questionId
           new == [old EXCEPT !.submitted_answer = answer.submittedAnswer]
       IN [rows |-> (rows \ {old}) \cup {new}, row |-> new]
  ELSE LET new == [submission_module_id |-> submissionModuleId,
                   question_id |-> answer.questionId,
                   submitted_answer |-> answer.submittedAnswer,
                   is_correct |-> "null"]
       IN [rows |-> rows \cup {new}, row |-> new]

\* The loop over the answers of one call.
RECURSIVE UpsertAll(_, _, _, _)
UpsertAll(rows, submissionModuleId, answers, insertedAnswers) ==
  IF answers = <<>> THEN [rows |-> rows, insertedAnswers |-> insertedAnswers]
  ELSE LET u == Upsert(rows, submissionModuleId, Head(answers))
       IN UpsertAll(u.rows, submissionModuleId, Tail(answers),
                    Append(insertedAnswers, u.row))

\* A call leaves the database db and returns or throws ret; a call that
\* throws is rolled back.
Commit(db, v) == [db |-> db, ret |-> Return(v)]
Rollback(db, e) == [db |-> db, ret |-> Throw(e)]

\* Mutant: the module is set to in_progress whatever its status was.
submitAnswers_AlwaysStarts(db, moduleId, answers) ==
  LET moduleResult == ModuleRows(db, moduleId) IN
  IF moduleResult = {}
  THEN Rollback(db, "Error submitting answers: Module not found for this submission")
  ELSE
    LET row == CHOOSE sm \in moduleResult : TRUE
        started == {IF sm.id = row.id
                    THEN [sm EXCEPT !.status = "in_progress"] ELSE sm :
                    sm \in db.submission_modules}
        u == UpsertAll(db.submitted_answers, row.id, answers, <<>>)
    IN Commit([db EXCEPT !.submission_modules = started,
                         !.submitted_answers = u.rows],
              u.insertedAnswers)

submitAnswers(db, moduleId, answers) ==
  LET moduleResult == ModuleRows(db, moduleId) IN
  IF moduleResult = {}
  THEN Rollback(db, "Error submitting answers: Module not found for this submission")
  ELSE
    LET row == CHOOSE sm \in moduleResult : TRUE
        started == {IF sm.id = row.id /\ sm.status = "not_started"
                    THEN [sm EXCEPT !.status = "in_progress"] ELSE sm :
                    sm \in db.submission_modules}
        u == UpsertAll(db.submitted_answers, row.id, answers, <<>>)
    IN Commit([db EXCEPT !.submission_modules = started,
                         !.submitted_answers = u.rows],
              u.insertedAnswers)

\* Mutant: the writes made before the rejected insertion are kept.
completeModule_KeepsOnConflict(db, moduleId) ==
  LET moduleResult == ModuleRows(db, moduleId) IN
  IF moduleResult = {}
  THEN Rollback(db, "Error completing module: Module not found for this submission")
  ELSE
    LET row == CHOOSE sm \in moduleResult : TRUE
        orderInTest == row.order_in_test
        subjectName == modules[row.module_id].subject_name
        gradeResult == {a \in db.submitted_answers :
                          a.submission_module_id = row.id}
        Grade(a) == IF a.submitted_answer = correct_answer(a.question_id)
                    THEN "true" ELSE "false"
        gradedAnswers == {IF a \in gradeResult
                          THEN [a EXCEPT !.is_correct = Grade(a)] ELSE a :
                          a \in db.submitted_answers}
        totalQuestions == Cardinality(gradeResult)
        correctAnswers == Cardinality({a \in gradeResult : Grade(a) = "true"})
        moduleNumber ==
          Cardinality({sm \in RowsOfSubject(db, subjectName) :
                         sm.order_in_test < orderInTest}) + 1
        module1Result ==
          OrderByOrderInTest({sm \in RowsOfSubject(db, subjectName) :
                                sm.status = "completed"})
        module1Percentage ==
          IF moduleNumber = 2 /\ module1Result # <<>>
             /\ module1Result[1].score # Null
          THEN module1Result[1].score.percentage ELSE Null
        moduleScore == calculateModuleScore(correctAnswers, totalQuestions, subjectName, moduleNumber, module1Percentage)
        completed == {IF sm.id = row.id
                      THEN [sm EXCEPT !.status = "completed",
                                      !.score = moduleScore] ELSE sm :
                      sm \in db.submission_modules}
        module2Difficulty == determineModule2Difficulty(moduleScore.percentage)
        nextModuleResult ==
          {m \in ModuleIds : /\ modules[m].subject_name = subjectName
                             /\ modules[m].difficulty = module2Difficulty}
        nextModule ==
          IF moduleNumber = 1 /\ nextModuleResult # {}
          THEN modules[CHOOSE m \in nextModuleResult :
                         \A o \in nextModuleResult :
                           test_modules[m] <= test_modules[o]]
          ELSE Null
        nextOrderInTest == orderInTest + 1
        inserted == [id |-> Cardinality(db.submission_modules) + 1,
                     module_id |-> nextModule.id,
                     order_in_test |-> nextOrderInTest,
                     status |-> "not_started", score |-> Null]
    IN IF nextModule = Null
       THEN Commit([db EXCEPT !.submission_modules = completed,
                              !.submitted_answers = gradedAnswers],
                   [moduleScore |-> moduleScore, nextModule |-> Null])
       ELSE IF \E sm \in completed : sm.order_in_test = nextOrderInTest
       THEN [db |-> [db EXCEPT !.submission_modules = completed,
                               !.submitted_answers = gradedAnswers],
             ret |-> Throw("Error completing module: duplicate key value violates unique constraint")]
       ELSE Commit([db EXCEPT !.submission_modules = completed \cup {inserted},
                              !.submitted_answers = gradedAnswers],
                   [moduleScore |-> moduleScore, nextModule |-> nextModule])

\* Mutant: submission_modules has no UNIQUE(submission_id, order_in_test).
completeModule_NoUniqueOrder(db, moduleId) ==
  LET moduleResult == ModuleRows(db, moduleId) IN
  IF moduleResult = {}
  THEN Rollback(db, "Error completing module: Module not found for this submission")
  ELSE
    LET row == CHOOSE sm \in moduleResult : TRUE
        orderInTest == row.order_in_test
        subjectName == modules[row.module_id].subject_name
        gradeResult == {a \in db.submitted_answers :
                          a.submission_module_id = row.id}
        Grade(a) == IF a.submitted_answer = correct_answer(a.question_id)
                    THEN "true" ELSE "false"
        gradedAnswers == {IF a \in gradeResult
                          THEN [a EXCEPT !.is_correct = Grade(a)] ELSE a :
                          a \in db.submitted_answers}
        totalQuestions == Cardinality(gradeResult)
        correctAnswers == Cardinality({a \in gradeResult : Grade(a) = "true"})
        moduleNumber ==
          Cardinality({sm \in RowsOfSubject(db, subjectName) :
                         sm.order_in_test < orderInTest}) + 1
        module1Result ==
          OrderByOrderInTest({sm \in RowsOfSubject(db, subjectName) :
                                sm.status = "completed"})
        module1Percentage ==
          IF moduleNumber = 2 /\ module1Result # <<>>
             /\ module1Result[1].score # Null
          THEN module1Result[1].score.percentage ELSE Null
        moduleScore == calculateModuleScore(correctAnswers, totalQuestions, subjectName, moduleNumber, module1Percentage)
        completed == {IF sm.id = row.id
                      THEN [sm EXCEPT !.status = "completed",
                                      !.score = moduleScore] ELSE sm :
                      sm \in db.submission_modules}
        module2Difficulty == determineModule2Difficulty(moduleScore.percentage)
        nextModuleResult ==
          {m \in ModuleIds : /\ modules[m].subject_name = subjectName
                             /\ modules[m].difficulty = module2Difficulty}
        nextModule ==
          IF moduleNumber = 1 /\ nextModuleResult # {}
          THEN modules[CHOOSE m \in nextModuleResult :
                         \A o \in nextModuleResult :
                           test_modules[m] <= test_modules[o]]
          ELSE Null
        nextOrderInTest == orderInTest + 1
        inserted == [id |-> Cardinality(db.submission_modules) + 1,
                     module_id |-> nextModule.id,
                     order_in_test |-> nextOrderInTest,
                     status |-> "not_started", score |-> Null]
    IN IF nextModule = Null
       THEN Commit([db EXCEPT !.submission_modules = completed,
                              !.submitted_answers = gradedAnswers],
                   [moduleScore |-> moduleScore, nextModule |-> Null])
       ELSE Commit([db EXCEPT !.submission_modules = completed \cup {inserted},
                              !.submitted_answers = gradedAnswers],
                   [moduleScore |-> moduleScore, nextModule |-> nextModule])

completeModule(db, moduleId) ==
  LET moduleResult == ModuleRows(db, moduleId) IN
  IF moduleResult = {}
  THEN Rollback(db, "Error completing module: Module not found for this submission")
  ELSE
    LET row == CHOOSE sm \in moduleResult : TRUE
        orderInTest == row.order_in_test
        subjectName == modules[row.module_id].subject_name
        gradeResult == {a \in db.submitted_answers :
                          a.submission_module_id = row.id}
        Grade(a) == IF a.submitted_answer = correct_answer(a.question_id)
                    THEN "true" ELSE "false"
        gradedAnswers == {IF a \in gradeResult
                          THEN [a EXCEPT !.is_correct = Grade(a)] ELSE a :
                          a \in db.submitted_answers}
        totalQuestions == Cardinality(gradeResult)
        correctAnswers == Cardinality({a \in gradeResult : Grade(a) = "true"})
        moduleNumber ==
          Cardinality({sm \in RowsOfSubject(db, subjectName) :
                         sm.order_in_test < orderInTest}) + 1
        module1Result ==
          OrderByOrderInTest({sm \in RowsOfSubject(db, subjectName) :
                                sm.status = "completed"})
        module1Percentage ==
          IF moduleNumber = 2 /\ module1Result # <<>>
             /\ module1Result[1].score # Null
          THEN module1Result[1].score.percentage ELSE Null
        moduleScore == calculateModuleScore(correctAnswers, totalQuestions, subjectName, moduleNumber, module1Percentage)
        completed == {IF sm.id = row.id
                      THEN [sm EXCEPT !.status = "completed",
                                      !.score = moduleScore] ELSE sm :
                      sm \in db.submission_modules}
        module2Difficulty == determineModule2Difficulty(moduleScore.percentage)
        nextModuleResult ==
          {m \in ModuleIds : /\ modules[m].subject_name = subjectName
                             /\ modules[m].difficulty = module2Difficulty}
        nextModule ==
          IF moduleNumber = 1 /\ nextModuleResult # {}
          THEN modules[CHOOSE m \in nextModuleResult :
                         \A o \in nextModuleResult :
                           test_modules[m] <= test_modules[o]]
          ELSE Null
        nextOrderInTest == orderInTest + 1
        inserted == [id |-> Cardinality(db.submission_modules) + 1,
                     module_id |-> nextModule.id,
                     order_in_test |-> nextOrderInTest,
                     status |-> "not_started", score |-> Null]
    IN IF nextModule = Null
       THEN Commit([db EXCEPT !.submission_modules = completed,
                              !.submitted_answers = gradedAnswers],
                   [moduleScore |-> moduleScore, nextModule |-> Null])
       ELSE IF \E sm \in completed : sm.order_in_test = nextOrderInTest
       THEN Rollback(db, "Error completing module: duplicate key value violates unique constraint")
       ELSE Commit([db EXCEPT !.submission_modules = completed \cup {inserted},
                              !.submitted_answers = gradedAnswers],
                   [moduleScore |-> moduleScore, nextModule |-> nextModule])

\* scoresBySubject[subjectName]: the scores of the completed modules of a
\* subject, ascending by order_in_test.
ScoresBySubject(db, subjectName) ==
  LET rows == OrderByOrderInTest({sm \in RowsOfSubject(db, subjectName) :
                                    sm.status = "completed"})
  IN [i \in 1..Len(rows) |-> rows[i].score]

\* Mutant: a subject gets a section score as soon as one of its modules is
\* completed.
finalizeSubmission_AnyCompleted(db) ==
  IF {sm \in db.submission_modules : sm.status = "completed"} = {}
  THEN Rollback(db, "Error finalizing submission: No completed modules found for this submission")
  ELSE
    LET Section(subjectName) ==
          LET scores == ScoresBySubject(db, subjectName)
          IN IF Len(scores) >= 1
             THEN calculateSectionFinalScore(scores[1], scores[Len(scores)],
                                             subjectName)
             ELSE Null
        readingWriting == Section("Reading and Writing")
        math == Section("Math")
        keys == {k \in {"readingWriting", "math"} :
                   IF k = "math" THEN math # Null ELSE readingWriting # Null}
        sections == [k \in keys |-> IF k = "math" THEN math.value
                                    ELSE readingWriting.value]
        totalScore ==
          IF keys = {"readingWriting", "math"}
          THEN calculateTotalSATScore(readingWriting.value, math.value)
          ELSE [sections |-> sections, incomplete |-> TRUE,
                message |-> "Not all sections completed"]
        result == [db.submission EXCEPT !.status = "submitted",
                                        !.score = totalScore]
    IN Commit([db EXCEPT !.submission = result], result)

finalizeSubmission(db) ==
  IF {sm \in db.submission_modules : sm.status = "completed"} = {}
  THEN Rollback(db, "Error finalizing submission: No completed modules found for this submission")
  ELSE
    LET Section(subjectName) ==
          LET scores == ScoresBySubject(db, subjectName)
          IN IF Len(scores) = 2
             THEN calculateSectionFinalScore(scores[1], scores[2], subjectName)
             ELSE Null
        readingWriting == Section("Reading and Writing")
        math == Section("Math")
        keys == {k \in {"readingWriting", "math"} :
                   IF k = "math" THEN math # Null ELSE readingWriting # Null}
        sections == [k \in keys |-> IF k = "math" THEN math.value
                                    ELSE readingWriting.value]
        totalScore ==
          IF keys = {"readingWriting", "math"}
          THEN calculateTotalSATScore(readingWriting.value, math.value)
          ELSE [sections |-> sections, incomplete |-> TRUE,
                message |-> "Not all sections completed"]
        result == [db.submission EXCEPT !.status = "submitted",
                                        !.score = totalScore]
    IN Commit([db EXCEPT !.submission = result], result)

\* The rows of the submission as one value.
Database ==
  [submission |-> submission, submission_modules |-> submission_modules,
   submitted_answers |-> submitted_answers]

\* What a call leaves behind: its name, its arguments, its result and the
\* rows it committed.
Called(name, arguments, result) ==
  /\ op' = name
  /\ args' = arguments
  /\ called' = TRUE
  /\ ret' = result.ret
  /\ submission' = result.db.submission
  /\ submission_modules' = result.db.submission_modules
  /\ submitted_answers' = result.db.submitted_answers

\* The answers of one call: an answer to each of the first n questions of
\* the module, in the order of the questions.
AnswerBatches(moduleId) ==
  UNION {{[i \in 1..n |-> [questionId |-> <<moduleId, i>>,
                           submittedAnswer |-> sheet[i]]] :
            sheet \in [1..n -> AnswerChoices]} : n \in 0..QuestionsPerModule}

\* Submission.create({ userId, testId, initialModuleId }) has committed.
Init ==
  \E initialModuleId \in Module1Ids :
    LET created == [status |-> "in_progress", score |-> Null]
        submissionModule == [id |-> 1, module_id |-> initialModuleId,
                             order_in_test |-> 1, status |-> "not_started",
                             score |-> Null]
    IN /\ submission = created
       /\ submission_modules = {submissionModule}
       /\ submitted_answers = {}
       /\ batches = 0
       /\ transactions = <<>>
       /\ op = "create"
       /\ args = [initialModuleId |-> initialModuleId]
       /\ called = TRUE
       /\ ret = Return([submission |-> created,
                        submissionModule |-> submissionModule])

\* The module ids a client names: the modules assigned to the submission and
\* the Module 1 of either subject.
ModuleArgs ==
  {sm.module_id : sm \in submission_modules} \cup Module1Ids

SubmitAnswers ==
  \E moduleId \in ModuleArgs :
    \E answers \in (IF ModuleRows(Database, moduleId) = {} THEN {<<>>}
                    ELSE AnswerBatches(moduleId)) :
      LET result == submitAnswers(Database, moduleId, answers)
      IN /\ result.ret.threw \/ batches < MaxBatches
         /\ batches' = IF result.ret.threw THEN batches ELSE batches + 1
         /\ UNCHANGED transactions
         /\ Called("submitAnswers",
                   [moduleId |-> moduleId, answers |-> answers], result)

CompleteModule ==
  \E moduleId \in ModuleArgs :
    /\ Called("completeModule", [moduleId |-> moduleId],
              completeModule(Database, moduleId))
    /\ UNCHANGED <<batches, transactions>>

FinalizeSubmission ==
  /\ Called("finalizeSubmission", Null, finalizeSubmission(Database))
  /\ UNCHANGED <<batches, transactions>>

Next ==
  \/ SubmitAnswers
  \/ CompleteModule
  \/ FinalizeSubmission

Spec == Init /\ [][Next]_vars

(***************************************************************************)
(* Two completeModule calls for the Module 1 of one submission, run as     *)
(* interleaved transactions.  Each call holds its own connection; the      *)
(* database runs the statements of a transaction at READ COMMITTED: a      *)
(* statement reads what is committed when it starts, an UPDATE locks its   *)
(* row until the transaction ends and waits for a row another transaction  *)
(* has locked, and what a transaction wrote reaches the tables at COMMIT.  *)
(***************************************************************************)

\* The two clients that call completeModule.
Clients == {1, 2}

\* A call before its BEGIN.
NotBegun ==
  [pc |-> "BEGIN", row |-> Null, gradeResult |-> {}, updated |-> {},
   moduleScore |-> Null, completed |-> FALSE, nextModule |-> Null,
   inserted |-> FALSE, error |-> "", ret |-> Pending]

\* The transaction of client c is open: it holds the locks of its writes.
InTransaction(c) == transactions[c].pc \notin {"BEGIN", "done"}

\* Client c holds the row lock of the stored answer to a question.
LocksAnswer(c, questionId) ==
  /\ InTransaction(c)
  /\ \E r \in transactions[c].updated : r.question_id = questionId

\* Client c holds the row lock of a submission_modules row.
LocksModule(c, submissionModuleId) ==
  /\ InTransaction(c)
  /\ transactions[c].completed
  /\ transactions[c].row.id = submissionModuleId

\* Client c has inserted, and not yet committed, a row with this order.
HoldsOrder(c, orderInTest) ==
  /\ InTransaction(c)
  /\ transactions[c].inserted
  /\ transactions[c].row.order_in_test + 1 = orderInTest

\* One client moves; the last-call variables stay as they are.
Step(c, tx) ==
  /\ transactions' = [transactions EXCEPT ![c] = tx]
  /\ UNCHANGED <<op, args, called, ret, batches>>

\* A step that writes nothing to the tables.
Uncommitted(c, tx) ==
  /\ Step(c, tx)
  /\ UNCHANGED <<submission, submission_modules, submitted_answers>>

\* BEGIN and the query of the module row.
Begin(c) ==
  LET tx == transactions[c]
      moduleResult == ModuleRows(Database, args.moduleId)
  IN /\ tx.pc = "BEGIN"
     /\ Uncommitted(c,
          IF moduleResult = {}
          THEN [tx EXCEPT !.pc = "ROLLBACK",
                          !.error = "Error completing module: Module not found for this submission"]
          ELSE [tx EXCEPT !.pc = "grade",
                          !.row = CHOOSE sm \in moduleResult : TRUE])

\* The grading query.
GradeQuery(c) ==
  LET tx == transactions[c]
      Grade(a) == IF a.submitted_answer = correct_answer(a.question_id)
                  THEN "true" ELSE "false"
      gradeResult == {[question_id |-> a.question_id, is_correct |-> Grade(a)] :
                        a \in {s \in submitted_answers :
                                 s.submission_module_id = tx.row.id}}
  IN /\ tx.pc = "grade"
     /\ Uncommitted(c, [tx EXCEPT !.pc = "update_answers",
                                  !.gradeResult = gradeResult])

\* One UPDATE of the grading loop; it waits while another transaction holds
\* the row.  The grading query has no ORDER BY, so the rows come in any order.
UpdateAnswer(c) ==
  LET tx == transactions[c]
  IN /\ tx.pc = "update_answers"
     /\ \E r \in tx.gradeResult \ tx.updated :
          /\ \A o \in Clients \ {c} : ~LocksAnswer(o, r.question_id)
          /\ Uncommitted(c, [tx EXCEPT !.updated = tx.updated \cup {r}])

\* Two grading loops each wait for a row the other has locked: the database
\* ends one of them with an error.
Deadlock(c) ==
  LET tx == transactions[c]
  IN /\ tx.pc = "update_answers"
     /\ \E o \in Clients \ {c} :
          /\ transactions[o].pc = "update_answers"
          /\ \E r \in tx.gradeResult \ tx.updated :
               LocksAnswer(o, r.question_id)
          /\ \E r \in transactions[o].gradeResult \ transactions[o].updated :
               LocksAnswer(c, r.question_id)
     /\ Uncommitted(c, [tx EXCEPT !.pc = "ROLLBACK",
                                  !.error = "Error completing module: deadlock detected"])

\* The count of the answers, the module number and the module score.
CalculateScore(c) ==
  LET tx == transactions[c]
      subjectName == modules[tx.row.module_id].subject_name
      totalQuestions == Cardinality(tx.gradeResult)
      correctAnswers ==
        Cardinality({r \in tx.gradeResult : r.is_correct = "true"})
      moduleNumber ==
        Cardinality({sm \in RowsOfSubject(Database, subjectName) :
                       sm.order_in_test < tx.row.order_in_test}) + 1
      module1Result ==
        OrderByOrderInTest({sm \in RowsOfSubject(Database, subjectName) :
                              sm.status = "completed"})
      module1Percentage ==
        IF moduleNumber = 2 /\ module1Result # <<>>
           /\ module1Result[1].score # Null
        THEN module1Result[1].score.percentage ELSE Null
  IN /\ tx.pc = "update_answers"
     /\ tx.updated = tx.gradeResult
     /\ Uncommitted(c, [tx EXCEPT !.pc = "update_module",
                                  !.moduleScore = calculateModuleScore(correctAnswers, totalQuestions, subjectName, moduleNumber, module1Percentage)])

\* The UPDATE of the module row, which waits while another transaction holds
\* the row, and the query of the next module.
UpdateModule(c) ==
  LET tx == transactions[c]
      subjectName == modules[tx.row.module_id].subject_name
      module2Difficulty == determineModule2Difficulty(tx.moduleScore.percentage)
      nextModuleResult ==
        {m \in ModuleIds : /\ modules[m].subject_name = subjectName
                           /\ modules[m].difficulty = module2Difficulty}
      nextModule ==
        IF tx.moduleScore.module_number = 1 /\ nextModuleResult # {}
        THEN modules[CHOOSE m \in nextModuleResult :
                       \A o \in nextModuleResult :
                         test_modules[m] <= test_modules[o]]
        ELSE Null
  IN /\ tx.pc = "update_module"
     /\ \A o \in Clients \ {c} : ~LocksModule(o, tx.row.id)
     /\ Uncommitted(c, [tx EXCEPT !.pc = IF nextModule = Null THEN "COMMIT"
                                         ELSE "insert",
                                  !.completed = TRUE,
                                  !.nextModule = nextModule])

\* Mutant: submission_modules has no UNIQUE(submission_id, order_in_test).
InsertNext_NoUniqueOrder(c) ==
  LET tx == transactions[c]
  IN /\ tx.pc = "insert"
     /\ Uncommitted(c, [tx EXCEPT !.pc = "COMMIT", !.inserted = TRUE])

\* The INSERT of the next module: it waits while another transaction holds an
\* uncommitted row of the same order, and it is rejected when a committed
\* row has that order.
InsertNext(c) ==
  LET tx == transactions[c]
      nextOrderInTest == tx.row.order_in_test + 1
  IN /\ tx.pc = "insert"
     /\ \A o \in Clients \ {c} : ~HoldsOrder(o, nextOrderInTest)
     /\ Uncommitted(c,
          IF \E sm \in submission_modules : sm.order_in_test = nextOrderInTest
          THEN [tx EXCEPT !.pc = "ROLLBACK",
                          !.error = "Error completing module: duplicate key value violates unique constraint"]
          ELSE [tx EXCEPT !.pc = "COMMIT", !.inserted = TRUE])

\* COMMIT: the writes of the transaction reach the tables, its locks are
\* released and the call returns.
CommitTransaction(c) ==
  LET tx == transactions[c]
      gradedAnswers ==
        {IF \E r \in tx.updated : r.question_id = a.question_id
         THEN [a EXCEPT !.is_correct =
                 (CHOOSE r \in tx.updated :
                    r.question_id = a.question_id).is_correct]
         ELSE a : a \in submitted_answers}
      completed == {IF sm.id = tx.row.id
                    THEN [sm EXCEPT !.status = "completed",
                                    !.score = tx.moduleScore] ELSE sm :
                    sm \in submission_modules}
      inserted == [id |-> Cardinality(submission_modules) + 1,
                   module_id |-> tx.nextModule.id,
                   order_in_test |-> tx.row.order_in_test + 1,
                   status |-> "not_started", score |-> Null]
  IN /\ tx.pc = "COMMIT"
     /\ submitted_answers' = gradedAnswers
     /\ submission_modules' =
          completed \cup (IF tx.inserted THEN {inserted} ELSE {})
     /\ UNCHANGED submission
     /\ Step(c, [tx EXCEPT !.pc = "done",
                           !.ret = Return([moduleScore |-> tx.moduleScore,
                                           nextModule |-> tx.nextModule])])

\* The catch block: ROLLBACK drops the writes of the transaction, releases
\* its locks, and the call throws.
RollbackTransaction(c) ==
  LET tx == transactions[c]
  IN /\ tx.pc = "ROLLBACK"
     /\ Uncommitted(c, [tx EXCEPT !.pc = "done",
                                  !.updated = {},
                                  !.completed = FALSE,
                                  !.inserted = FALSE,
                                  !.ret = Throw(tx.error)])

\* A submission after Submission.create, and after at most one batch of
\* answers to its Module 1; both clients are about to complete that module.
ConcurrentInit ==
  \E initialModuleId \in Module1Ids :
    \E answers \in AnswerBatches(initialModuleId) : \E started \in BOOLEAN :
      LET created ==
            [submission |-> [status |-> "in_progress", score |-> Null],
             submission_modules |->
               {[id |-> 1, module_id |-> initialModuleId, order_in_test |-> 1,
                 status |-> "not_started", score |-> Null]},
             submitted_answers |-> {}]
          db == IF started
                THEN submitAnswers(created, initialModuleId, answers).db
                ELSE created
      IN /\ started \/ answers = <<>>
         /\ submission = db.submission
         /\ submission_modules = db.submission_modules
         /\ submitted_answers = db.submitted_answers
         /\ batches = IF started THEN 1 ELSE 0
         /\ op = "completeModule"
         /\ args = [moduleId |-> initialModuleId]
         /\ called = FALSE
         /\ ret = Pending
         /\ transactions = [c \in Clients |-> NotBegun]

ConcurrentNext ==
  \E c \in Clients :
    \/ Begin(c)
    \/ GradeQuery(c)
    \/ UpdateAnswer(c)
    \/ Deadlock(c)
    \/ CalculateScore(c)
    \/ UpdateModule(c)
    \/ InsertNext(c)
    \/ CommitTransaction(c)
    \/ RollbackTransaction(c)

ConcurrentSpec == ConcurrentInit /\ [][ConcurrentNext]_vars

(***************************************************************************)
(* Properties of the scoring functions, checked under ScoringSpec.         *)
(***************************************************************************)
\* The rows of the table the specification names for a subject and a branch.
TableRows(subject, difficulty) ==
  IF subject = "Reading and Writing"
  THEN (IF difficulty = "hard" THEN RW_hard ELSE RW_easy)
  ELSE (IF difficulty = "hard" THEN MATH_hard ELSE MATH_easy)

\* The raw counts of a subject's domain: 0..54 and 0..44.
RawDomain(subject) == IF subject = "Reading and Writing" THEN 0..54 ELSE 0..44

\* c / t * 100 in hundredths, rounded half up in exact integer arithmetic.
HalfUpHundredths(c, t) == IF t = 0 THEN 0 ELSE (20000 * c + t) \div (2 * t)

Returned(name) == op = name /\ called

\* C1: for valid subjects calculateSectionFinalScore returns the scaled score
\* calculateSectionScore gives for the summed raw scores under the branch
\* determineModule2Difficulty(module1Score.percentage), and reports that
\* branch as module_2_difficulty; 23/27 then 21/27 gives the hard entry for
\* raw 44, 10/27 then 8/27 the easy entry for raw 18.
C1_SectionFinalScaledScore ==
  (Returned("calculateSectionFinalScore") /\ args.subject \in Subjects) =>
    LET m1 == args.module1Score
        m2 == args.module2Score
        branch == determineModule2Difficulty(m1.percentage)
        raw == m1.raw_score + m2.raw_score
    IN /\ ~ret.threw
       /\ ret.value.scaled_score =
            calculateSectionScore(raw, args.subject, branch).value
       /\ ret.value.module_2_difficulty = branch
       /\ (m1.raw_score = 23 /\ m1.total_questions = 27 /\ m2.raw_score = 21)
            => /\ ret.value.module_2_difficulty = "hard"
               /\ ret.value.scaled_score = TableRows(args.subject, "hard")[45]
       /\ (m1.raw_score = 10 /\ m1.total_questions = 27 /\ m2.raw_score = 8)
            => /\ ret.value.module_2_difficulty = "easy"
               /\ ret.value.scaled_score = TableRows(args.subject, "easy")[19]

C1_Witness ==
  /\ Returned("calculateSectionFinalScore")
  /\ args.subject = "Reading and Writing"
  /\ args.module1Score.raw_score = 23
  /\ args.module1Score.total_questions = 27
  /\ args.module2Score.raw_score = 21
  /\ args.module2Score.total_questions = 27
  /\ ~ret.threw
  /\ ret.value.scaled_score = 680
  /\ ret.value.module_2_difficulty = "hard"

C4_ConvertReturnsTableEntry ==
  (/\ Returned("calculateSectionScore")
   /\ args.subject \in Subjects
   /\ args.module2Difficulty \in Difficulties
   /\ args.rawScore \in RawDomain(args.subject)) =>
    /\ ~ret.threw
    /\ ret.value =
         TableRows(args.subject, args.module2Difficulty)[args.rawScore + 1]

C4_Witness ==
  /\ Returned("calculateSectionScore")
  /\ args.subject = "Math"
  /\ args.module2Difficulty = "hard"
  /\ args.rawScore = 44
  /\ ~ret.threw
  /\ ret.value = 800

\* C5: for a valid subject and branch, calculateSectionScore of an integer
\* raw count outside the subject's domain returns 200 and does not throw.
C5_ConvertFloorOutsideDomain ==
  (/\ Returned("calculateSectionScore")
   /\ args.subject \in Subjects
   /\ args.module2Difficulty \in Difficulties
   /\ args.rawScore \notin RawDomain(args.subject)) =>
    /\ ~ret.threw
    /\ ret.value = 200

C5_Witness ==
  /\ Returned("calculateSectionScore")
  /\ args.subject = "Math"
  /\ args.module2Difficulty = "hard"
  /\ args.rawScore = 45
  /\ ~ret.threw
  /\ ret.value = 200

\* C6: calculateSectionScore throws "Invalid subject" for every subject other
\* than the two recognised ones, whatever the raw count and the difficulty;
\* calculateSectionFinalScore lets that error through; and
\* calculateSectionScore does not throw for a valid subject and difficulty.
C6_InvalidSubjectThrows ==
  /\ (Returned("calculateSectionScore") /\ args.subject \notin Subjects)
       => (ret.threw /\ ret.error = "Invalid subject")
  /\ (Returned("calculateSectionFinalScore") /\ args.subject \notin Subjects)
       => (ret.threw /\ ret.error = "Invalid subject")
  /\ (/\ Returned("calculateSectionScore")
      /\ args.subject \in Subjects
      /\ args.module2Difficulty \in Difficulties) => ~ret.threw

C6_Witness ==
  /\ Returned("calculateSectionScore")
  /\ args.subject = "Science"
  /\ args.rawScore = 10
  /\ args.module2Difficulty = "easy"
  /\ ret.threw
  /\ ret.error = "Invalid subject"

\* C7: calculateModuleScore returns the percentage
\* correctAnswers / totalQuestions * 100 rounded half up to two decimals, and
\* 0 when totalQuestions is 0.
C7_ModulePercentageHalfUp ==
  Returned("calculateModuleScore") =>
    ret.value.percentage =
      Divide(HalfUpHundredths(args.correctAnswers, args.totalQuestions), 100)

\* C8: for a first module of at least one question, determines_next_difficulty
\* is determineModule2Difficulty of the returned (rounded) percentage.
C8_NextDifficultyOfRoundedPercentage ==
  (/\ Returned("calculateModuleScore")
   /\ args.moduleNumber = 1
   /\ args.totalQuestions >= 1) =>
    ret.value.determines_next_difficulty =
      determineModule2Difficulty(ret.value.percentage)

\* C9: calculateSectionFinalScore returns the summed raw score, the summed
\* total, and the percentage of the two rounded half up to two decimals (0
\* when the summed total is 0).
C9_SectionFinalTotals ==
  (Returned("calculateSectionFinalScore") /\ ~ret.threw) =>
    LET raw == args.module1Score.raw_score + args.module2Score.raw_score
        total == args.module1Score.total_questions
                   + args.module2Score.total_questions
    IN /\ ret.value.raw_score = raw
       /\ ret.value.total_questions = total
       /\ ret.value.percentage = Divide(HalfUpHundredths(raw, total), 100)

\* C10: calculateTotalSATScore returns as total_score the sum of the two
\* sections' scaled scores, unclamped, and does not throw; 720 and 650 give
\* 1370.
C10_TotalIsSum ==
  Returned("calculateTotalSATScore") =>
    LET a == args.readingWritingSection.scaled_score
        b == args.mathSection.scaled_score
    IN /\ ~ret.threw
       /\ ret.value.total_score = a + b
       /\ (a = 720 /\ b = 650) => ret.value.total_score = 1370

C10_Witness ==
  /\ Returned("calculateTotalSATScore")
  /\ args.readingWritingSection.scaled_score = 720
  /\ args.mathSection.scaled_score = 650
  /\ ret.value.total_score = 1370

\* The raw scores handed to calculateSectionScore, and a call of it with a
\* recognised subject and a difficulty that keys a table.
RawArgs == (0 - RawMargin)..(MaxRawKey + RawMargin)

\* The last key of the subject's tables.
LastKey(subject) == Len(TableRows(subject, "hard")) - 1

ConvertReturned ==
  /\ Returned("calculateSectionScore")
  /\ args.subject \in Subjects
  /\ args.module2Difficulty \in Difficulties

\* convert(r1) <= the value the call returned, for every smaller raw score r1.
NoSmallerRawScoresHigher ==
  \A r1 \in RawArgs :
    r1 < args.rawScore =>
      calculateSectionScore(r1, args.subject, args.module2Difficulty).value
        <= ret.value

\* C12 as stated: for a fixed subject and difficulty and all integer raw
\* scores r1 < r2, calculateSectionScore(r1) <= calculateSectionScore(r2).
C12_ConvertMonotonic ==
  ConvertReturned => NoSmallerRawScoresHigher

\* C12, amended: for a fixed subject and difficulty and all integer raw
\* scores r1 < r2 with r2 no larger than the last key of the subject's table
\* (54 for Reading and Writing, 44 for Math),
\* calculateSectionScore(r1) <= calculateSectionScore(r2); a larger r2
\* converts to the floor 200.
C12_ConvertMonotonicUpToLastKey ==
  (ConvertReturned /\ args.rawScore <= LastKey(args.subject))
  => NoSmallerRawScoresHigher

C12_Witness ==
  /\ ConvertReturned
  /\ args.subject = "Reading and Writing"
  /\ args.module2Difficulty = "hard"
  /\ args.rawScore = 54
  /\ ret.value = 800
  /\ calculateSectionScore(53, args.subject, args.module2Difficulty).value
       = 790

\* C13: each of the four tables has an entry for every raw score of its
\* subject's domain (0..54 for Reading and Writing, 0..44 for Math) and is
\* non-decreasing over it: table[r1] <= table[r2] for 0 <= r1 < r2.
C13_TablesNonDecreasing ==
  (ConvertReturned /\ args.rawScore \in RawDomain(args.subject)) =>
    LET scoreTable == (IF args.subject = "Reading and Writing"
                       THEN RW_SCORE_TABLE
                       ELSE MATH_SCORE_TABLE)[args.module2Difficulty]
    IN /\ DOMAIN scoreTable = RawDomain(args.subject)
       /\ \A r1 \in 0..(args.rawScore - 1) :
            scoreTable[r1] <= scoreTable[args.rawScore]

C13_Witness ==
  /\ ConvertReturned
  /\ args.subject = "Math"
  /\ args.module2Difficulty = "easy"
  /\ args.rawScore = 44
  /\ MATH_SCORE_TABLE.easy[43] = 670
  /\ MATH_SCORE_TABLE.easy[44] = 680
  /\ ret.value = 680

\* The value calculateSectionScore returns for the raw score and subject of
\* the call under the difficulty d; for the call's own difficulty it is the
\* value the call returned.
ConvertUnder(d) ==
  IF d = args.module2Difficulty THEN ret.value
  ELSE calculateSectionScore(args.rawScore, args.subject, d).value

\* C14: for every subject and every raw score of the subject's domain,
\* calculateSectionScore under hard returns at least what it returns under
\* easy.
C14_HardAtLeastEasy ==
  (ConvertReturned /\ args.rawScore \in RawDomain(args.subject)) =>
    ConvertUnder("hard") >= ConvertUnder("easy")

C14_Witness ==
  /\ ConvertReturned
  /\ args.subject = "Reading and Writing"
  /\ args.module2Difficulty = "easy"
  /\ args.rawScore = 54
  /\ ret.value = 700
  /\ ConvertUnder("hard") = 800

\* C15 as stated: for every subject and every raw score of the subject's
\* domain, raw score 0 included, hard converts strictly higher than easy.
C15_HardStrictlyAboveEasy ==
  (ConvertReturned /\ args.rawScore \in RawDomain(args.subject)) =>
    ConvertUnder("hard") > ConvertUnder("easy")

\* C15, amended: for every subject and every raw score from 1 to the end of
\* the subject's domain hard converts strictly higher than easy; at raw
\* score 0 both convert to 200.
C15_HardStrictlyAboveEasyFromOne ==
  (ConvertReturned /\ args.rawScore \in RawDomain(args.subject)) =>
    IF args.rawScore = 0
    THEN ConvertUnder("hard") = 200 /\ ConvertUnder("easy") = 200
    ELSE ConvertUnder("hard") > ConvertUnder("easy")

C15_Witness ==
  /\ ConvertReturned
  /\ args.subject = "Math"
  /\ args.module2Difficulty = "hard"
  /\ args.rawScore = 1
  /\ ret.value = 250
  /\ ConvertUnder("easy") = 240

\* What calculateSectionFinalScore returns for the arguments of the call
\* when the first module's score stores d as determines_next_difficulty.
SectionFinalWithStored(d) ==
  calculateSectionFinalScore(
    [args.module1Score EXCEPT !.determines_next_difficulty = d],
    args.module2Score, args.subject)

\* C16: calculateSectionFinalScore decides the difficulty from
\* module1Score.percentage alone: whichever determines_next_difficulty the
\* first module's score stores, the call returns the same
\* module_2_difficulty and the same scaled_score (or throws alike).
C16_StoredDifficultyIgnored ==
  Returned("calculateSectionFinalScore") =>
    \A d \in Difficulties :
      LET other == SectionFinalWithStored(d)
      IN IF ret.threw THEN other.threw
         ELSE /\ ~other.threw
              /\ other.value.module_2_difficulty
                   = ret.value.module_2_difficulty
              /\ other.value.scaled_score = ret.value.scaled_score

C16_Witness ==
  /\ Returned("calculateSectionFinalScore")
  /\ ~ret.threw
  /\ args.module1Score.determines_next_difficulty = "hard"
  /\ ret.value.module_2_difficulty = "hard"
  /\ ret.value.scaled_score > 200
  /\ SectionFinalWithStored("easy").value.module_2_difficulty = "hard"
  /\ SectionFinalWithStored("easy").value.scaled_score
       = ret.value.scaled_score

\* The arguments of the call are section scores that
\* calculateSectionFinalScore returned.
OfSections ==
  /\ "module_scores" \in DOMAIN args.readingWritingSection
  /\ "module_scores" \in DOMAIN args.mathSection

\* C11: the total_score calculateTotalSATScore returns for a Reading and
\* Writing and a Math section score, each returned by
\* calculateSectionFinalScore, lies in 400..1600, although the function
\* clamps nothing.
C11_CompositeInRange ==
  (Returned("calculateTotalSATScore") /\ OfSections) =>
    /\ ret.value.total_score >= 400
    /\ ret.value.total_score <= 1600
    /\ ret.value.total_score = args.readingWritingSection.scaled_score
                                + args.mathSection.scaled_score

\* A Reading and Writing raw score beyond the table and a Math raw score of
\* 0 give the lowest total.
C11_Witness ==
  /\ Returned("calculateTotalSATScore") /\ OfSections
  /\ args.readingWritingSection.raw_score > 54
  /\ args.mathSection.raw_score = 0
  /\ ret.value.total_score = 400

\* C20: calculateTotalSATScore returns the same total_score when its two
\* section scores are handed over in the other order.
C20_TotalOrderIndependent ==
  Returned("calculateTotalSATScore") =>
    ret.value.total_score
      = calculateTotalSATScore(args.mathSection,
                               args.readingWritingSection).total_score

C20_Witness ==
  /\ Returned("calculateTotalSATScore")
  /\ args.readingWritingSection.scaled_score = 800
  /\ args.mathSection.scaled_score = 200
  /\ ret.value.total_score = 1000
  /\ calculateTotalSATScore(args.mathSection,
                            args.readingWritingSection).total_score = 1000

\* What the scoring function named by op returns for the arguments a.
ScoringResult(a) ==
  CASE op = "determineModule2Difficulty" ->
         Return(determineModule2Difficulty(a.module1Percentage))
    [] op = "calculateSectionScore" ->
         calculateSectionScore(a.rawScore, a.subject, a.module2Difficulty)
    [] op = "calculateModuleScore" ->
         Return(calculateModuleScore(a.correctAnswers, a.totalQuestions, a.subject, a.moduleNumber, a.module1Percentage))
    [] op = "calculateSectionFinalScore" ->
         calculateSectionFinalScore(a.module1Score, a.module2Score, a.subject)
    [] op = "calculateTotalSATScore" ->
         Return(calculateTotalSATScore(a.readingWritingSection, a.mathSection))

Module1PercentageArgs ==
  {Null, FromInt(0 - 5), FromInt(0), Divide(6999, 100), FromInt(70),
   FromInt(100)}

\* What calculateModuleScore returns for the arguments of the call with p as
\* module1Percentage.
ModuleScoreWithPrior(p) ==
  calculateModuleScore(args.correctAnswers, args.totalQuestions, args.subject, args.moduleNumber, p)

C24_ConvertInRange ==
  ConvertReturned => (~ret.threw /\ ret.value \in 200..800)

\* A negative raw score and a raw score past the last key both took the
\* floor: the call returned 200 for the lowest raw score handed over, and
\* the same call one past the last key gives 200 as well.
C24_Witness ==
  /\ ConvertReturned
  /\ args.rawScore = 0 - RawMargin
  /\ args.subject = "Math"
  /\ args.module2Difficulty = "easy"
  /\ ret.value = 200
  /\ calculateSectionScore(LastKey("Math") + 1, "Math", "easy").value = 200

(***************************************************************************)
(* Properties of the submission workflow, checked under Spec.              *)
(***************************************************************************)

\* C3: when completeModule has graded the Module 1 of a subject with
\* percentage p and assigned a next module, that module is the harder
\* Module 2 when p >= 60 and the easier Module 2 when p < 60.
C3_NextModuleAtSixty ==
  (/\ Returned("completeModule")
   /\ ~ret.threw
   /\ ret.value.moduleScore.module_number = 1
   /\ ret.value.nextModule # Null)
  => ret.value.nextModule.difficulty =
       (IF GreaterOrEqual(ret.value.moduleScore.percentage, 60)
        THEN "hard" ELSE "easy")

\* The modules of a subject the submission has completed.
CompletedOf(subjectName) ==
  {sm \in RowsOfSubject(Database, subjectName) : sm.status = "completed"}

\* C17: from a submission created with Reading and Writing Module 1 the
\* student completes RW Module 1, RW Module 2, Math Module 1 and Math
\* Module 2 in that order and finalizeSubmission then stores a total_score.
\* The third step of that sequence is stated here: once both Reading and
\* Writing modules are completed, a submitAnswers or completeModule call
\* that names Math Module 1 is accepted.
C17_MathModule1Accepted ==
  (/\ op \in {"submitAnswers", "completeModule"}
   /\ args.moduleId = "M1"
   /\ Cardinality(CompletedOf("Reading and Writing")) = 2)
  => ~ret.threw

\* No call sequence stores a score that carries a total_score: every score
\* finalizeSubmission stores is marked incomplete.
NoTotalScoreStored ==
  submission.score # Null =>
    /\ "total_score" \notin DOMAIN submission.score
    /\ submission.score.incomplete

\* C18: once completeModule has stored the score of a module of the
\* submission, no later submitAnswers, completeModule or finalizeSubmission
\* call changes that stored score.
C18_StoredModuleScoreImmutable ==
  [][\A sm \in submission_modules :
       sm.score # Null =>
         \E after \in submission_modules' :
           after.id = sm.id /\ after.score = sm.score]_vars

\* The key of a subject in the sections finalizeSubmission stores.
SectionKey(subjectName) ==
  IF subjectName = "Math" THEN "math" ELSE "readingWriting"

\* The subjects with exactly two completed modules.
SubjectsCompleted == {s \in Subjects : Cardinality(CompletedOf(s)) = 2}

\* C19: finalizeSubmission throws when no module is completed; otherwise
\* the score it stores holds a section score for exactly the subjects with
\* two completed modules, and a total_score only when both subjects have
\* one: in every other case the score is marked incomplete and carries no
\* total_score.
C19_SectionsOnlyOfCompletedSubjects ==
  Returned("finalizeSubmission") =>
    IF \A s \in Subjects : CompletedOf(s) = {}
    THEN ret.threw
    ELSE /\ ~ret.threw
         /\ submission.status = "submitted"
         /\ IF SubjectsCompleted = Subjects
            THEN /\ "incomplete" \notin DOMAIN submission.score
                 /\ submission.score.total_score
                      = submission.score.reading_writing.scaled_score
                        + submission.score.math.scaled_score
            ELSE /\ submission.score.incomplete
                 /\ "total_score" \notin DOMAIN submission.score
                 /\ DOMAIN submission.score.sections
                      = {SectionKey(s) : s \in SubjectsCompleted}

\* finalizeSubmission after one completed module, which earns no section
\* score.
C19_Witness ==
  /\ Returned("finalizeSubmission")
  /\ ~ret.threw
  /\ Cardinality(CompletedOf("Reading and Writing")) = 1
  /\ submission.score.incomplete
  /\ DOMAIN submission.score.sections = {}

\* The rows of the submission after the step.
DatabaseAfter ==
  [submission |-> submission', submission_modules |-> submission_modules',
   submitted_answers |-> submitted_answers']

\* C23: after a submitAnswers call there is at most one stored answer per
\* question, each question of the call holds the value the call submitted,
\* the answers to the other questions are the rows stored before, and
\* submitting the same answers once more leaves the stored answers as they
\* are.
C23_LatestAnswerStoredOnce ==
  [][(op' = "submitAnswers" /\ ~ret'.threw) =>
       /\ \A a \in submitted_answers' : \A b \in submitted_answers' :
            a.question_id = b.question_id => a = b
       /\ \A i \in DOMAIN args'.answers :
            \E a \in submitted_answers' :
              /\ a.question_id = args'.answers[i].questionId
              /\ a.submitted_answer = args'.answers[i].submittedAnswer
       /\ \A a \in submitted_answers :
            (\A i \in DOMAIN args'.answers :
               args'.answers[i].questionId # a.question_id)
            => a \in submitted_answers'
       /\ submitAnswers(DatabaseAfter, args'.moduleId,
                        args'.answers).db.submitted_answers
            = submitted_answers']_vars

\* A second batch has replaced an answer that was graded correct by the
\* other choice.
C23_Witness ==
  /\ Returned("submitAnswers")
  /\ ~ret.threw
  /\ batches = 2
  /\ \E a \in submitted_answers :
       /\ a.is_correct = "true"
       /\ a.submitted_answer = "B"
       /\ \E i \in DOMAIN args.answers :
            /\ args.answers[i].questionId = a.question_id
            /\ args.answers[i].submittedAnswer = "B"


\* The completed rows of a subject whose module is a Module 2.
CompletedModule2Of(subjectName) ==
  {sm \in CompletedOf(subjectName) :
     modules[sm.module_id].difficulty # "medium"}

\* C25: whenever the stored score of the submission holds the section score
\* of a subject, the module_2_difficulty of that section is the difficulty
\* of the Module 2 of the subject that was assigned and is completed.
C25_SectionDifficultyIsAssignedDifficulty ==
  \A s \in Subjects :
    (/\ submission.score # Null
     /\ SectionKey(s) \in DOMAIN submission.score.sections)
    => /\ CompletedModule2Of(s) # {}
       /\ \A sm \in CompletedModule2Of(s) :
            modules[sm.module_id].difficulty
              = submission.score.sections[SectionKey(s)].module_2_difficulty

\* A stored Reading and Writing section of the hard table, whose second
\* module was answered wrongly throughout.
C25_Witness ==
  /\ submission.score # Null
  /\ "readingWriting" \in DOMAIN submission.score.sections
  /\ submission.score.sections.readingWriting.module_2_difficulty = "hard"
  /\ submission.score.sections.readingWriting.raw_score = QuestionsPerModule
  /\ submission.score.sections.readingWriting.total_questions
       = 2 * QuestionsPerModule
  /\ \E sm \in CompletedModule2Of("Reading and Writing") :
       sm.module_id = "RW2H"


\* The questions of a module of the test.
QuestionsOf(moduleId) == {<<moduleId, i>> : i \in 1..QuestionsPerModule}

\* C26: the score completeModule stores for a module has total_questions
\* equal to the number of questions of that module, whatever part of them
\* the student answered.
C26_TotalQuestionsOfModule ==
  \A sm \in submission_modules :
    sm.score # Null =>
      sm.score.total_questions = Cardinality(QuestionsOf(sm.module_id))


\* The place of a status on the way not_started, in_progress, completed.
StatusRank(status) ==
  CASE status = "not_started" -> 0
    [] status = "in_progress" -> 1
    [] status = "completed" -> 2

\* C27: after every step, a Module 2 of a subject is assigned only if the
\* Module 1 of that subject is completed and has a stored score, and no
\* assigned module has gone back on the way not_started, in_progress,
\* completed.
C27_Module2AfterModule1AndStatusForward ==
  [][/\ \A m2 \in submission_modules' :
          modules[m2.module_id].difficulty # "medium" =>
            \E m1 \in submission_modules' :
              /\ modules[m1.module_id].difficulty = "medium"
              /\ modules[m1.module_id].subject_name
                   = modules[m2.module_id].subject_name
              /\ m1.status = "completed"
              /\ m1.score # Null
     /\ \A sm \in submission_modules :
          \E after \in submission_modules' :
            /\ after.id = sm.id
            /\ after.module_id = sm.module_id
            /\ StatusRank(sm.status) <= StatusRank(after.status)]_vars

\* Answers were handed in for a completed Module 2, which stays completed
\* beside its completed, scored Module 1.
C27_Witness ==
  /\ Returned("submitAnswers")
  /\ ~ret.threw
  /\ Len(args.answers) > 0
  /\ \E m2 \in submission_modules :
       /\ m2.module_id = args.moduleId
       /\ modules[m2.module_id].difficulty # "medium"
       /\ m2.status = "completed"
       /\ \E a \in submitted_answers :
            a.submission_module_id = m2.id /\ a.is_correct = "null"
  /\ \E m1 \in submission_modules :
       /\ modules[m1.module_id].difficulty = "medium"
       /\ m1.status = "completed"
       /\ m1.score # Null


\* C29: a completeModule call that fails, because the module is not
\* assigned to the submission or because the insertion of the next module
\* is rejected, leaves the stored submission, module rows and answers as
\* they were before the call.
C29_FailedCompleteChangesNothing ==
  [][(op' = "completeModule" /\ ret'.threw) =>
       UNCHANGED <<submission, submission_modules, submitted_answers>>]_vars

\* Module 1 was completed a second time after a further answer had been
\* stored for it: the insertion of the next module was rejected and the
\* answer is still ungraded.
C29_Witness ==
  /\ Returned("completeModule")
  /\ ret.threw
  /\ \E sm \in submission_modules :
       /\ sm.module_id = args.moduleId
       /\ sm.status = "completed"
       /\ \E a \in submitted_answers :
            a.submission_module_id = sm.id /\ a.is_correct = "null"
       /\ \E next \in submission_modules :
            next.order_in_test = sm.order_in_test + 1

\* The assigned modules that getCurrentModule selects from.
OpenModules ==
  {sm \in submission_modules : sm.status \in {"not_started", "in_progress"}}

\* C30: in every state reached through create, submitAnswers,
\* completeModule and finalizeSubmission at most one assigned module has
\* status not_started or in_progress.
C30_AtMostOneOpenModule == Cardinality(OpenModules) <= 1

\* Module 1 was completed once more while its Module 2 is open: the call
\* was rejected and the Module 2 is still the only open module.
C30_Witness ==
  /\ Returned("completeModule")
  /\ ret.threw
  /\ \E sm \in submission_modules :
       sm.module_id = args.moduleId /\ sm.order_in_test = 1
  /\ Cardinality(OpenModules) = 1
  /\ \A sm \in OpenModules : sm.order_in_test = 2 /\ sm.status = "in_progress"


(***************************************************************************)
(* Properties of interleaved completeModule calls, checked under           *)
(* ConcurrentSpec.                                                         *)
(***************************************************************************)

\* The call of client c has returned and assigned a Module 2.
AssignedModule2(c) ==
  /\ transactions[c].pc = "done"
  /\ ~transactions[c].ret.threw
  /\ transactions[c].ret.value.nextModule # Null

\* The call of client c has thrown.
Failed(c) ==
  /\ transactions[c].pc = "done"
  /\ transactions[c].ret.threw

\* The tables are as Submission.create and submitAnswers left them.
NothingCompleted ==
  /\ Cardinality(submission_modules) = 1
  /\ \A sm \in submission_modules :
       sm.status # "completed" /\ sm.score = Null
  /\ \A a \in submitted_answers : a.is_correct = "null"

\* The tables hold what the call of client c committed, and nothing else.
OnlyCommitOf(c) ==
  /\ Cardinality(submission_modules) = 2
  /\ \E m1 \in submission_modules :
       /\ m1.module_id = args.moduleId
       /\ m1.status = "completed"
       /\ m1.score = transactions[c].ret.value.moduleScore
  /\ \E m2 \in submission_modules :
       /\ m2.module_id = transactions[c].ret.value.nextModule.id
       /\ m2.order_in_test = 2
       /\ m2.status = "not_started"
       /\ m2.score = Null

\* C28: when two completeModule calls for the Module 1 of a submission run
\* as interleaved transactions, no two module rows ever share an
\* order_in_test, at most one call assigns a Module 2, and once a call has
\* failed the tables hold none of its writes: they are as before the calls,
\* or as the commit of the other call left them.
C28_OneCallAssignsModule2 ==
  /\ \A a \in submission_modules : \A b \in submission_modules :
       a.order_in_test = b.order_in_test => a = b
  /\ Cardinality({c \in Clients : AssignedModule2(c)}) <= 1
  /\ \A c \in Clients :
       Failed(c) =>
         \A o \in Clients \ {c} :
           IF AssignedModule2(o) THEN OnlyCommitOf(o)
           ELSE transactions[o].pc # "done" /\ NothingCompleted

\* Both calls graded three right answers and wrote the module row; the first
\* committed the harder Module 2, the second was rejected at its insertion.
C28_Witness ==
  /\ AssignedModule2(1)
  /\ transactions[1].ret.value.nextModule.difficulty = "hard"
  /\ Failed(2)
  /\ transactions[2].error
       = "Error completing module: duplicate key value violates unique constraint"
  /\ Cardinality(transactions[2].gradeResult) = QuestionsPerModule
  /\ transactions[2].moduleScore = transactions[1].moduleScore
  /\ OnlyCommitOf(1)
====
